---- MODULE Spec2Model ----
(***************************************************************************)
(* Model of goblin.session.Session (src/goblin/session.py): the            *)
(* unit-of-work session of the goblin OGM.  Every coroutine of Session is  *)
(* a task that runs atomically between its awaits; the engine's answer to  *)
(* a submitted script (submit + fetch_data) is chosen by the environment.  *)
(***************************************************************************)
EXTENDS Integers, Sequences, FiniteSets, TLC

\* ------------------------------------------------------------------------
\* Bounds of the model
\* ------------------------------------------------------------------------
NumIds == 2
MaxAdds == 2
MaxCalls == 4

\* ------------------------------------------------------------------------
\* Values
\* ------------------------------------------------------------------------
\* The cooperative tasks that may await the session; Spec runs the session's
\* operations from one of them (Caller) while add() may be called between
\* any two of its steps
Tasks == {"t1", "t2"}
Ids == 1..NumIds
NoId == 0                  \* the element has no attribute 'id'
NoAttr == "NoAttr"         \* hasattr(element, name) is False
None == "None"             \* Python's None
NoRet == "NoRet"           \* the coroutine has not returned
NoExc == "NoExc"           \* no exception is propagating
NoElem == "NoElem"
NoFam == "NoFam"

\* The elements the caller owns.  Their __type__ and endpoints are fixed,
\* their id is the mutable part (elemId).
Elements == {"v", "e", "n", "m", "k", "x"}

\* element.__type__
Type(el) ==
  CASE el = "v" -> "vertex"
    [] el \in {"e", "n", "m", "k"} -> "edge"
    [] OTHER -> "other"

\* element.source: a vertex, None, or no such attribute
Source(el) ==
  CASE el \in {"e", "k"} -> "v"
    [] el = "n" -> None
    [] OTHER -> NoAttr

\* element.target: a vertex, None, or no such attribute
Target(el) ==
  CASE el \in {"e", "n", "m"} -> "v"
    [] OTHER -> NoAttr

\* Exceptions
UnknownElementType == "Unknown element type"
MissingEndpoints == "Edges require source/target vetices"
TypeError == "TypeError"
IndexError == "IndexError"
KeyError == "KeyError"
NotImplementedError == "NotImplementedError"
TransportError == "TransportError"
AttributeError == "AttributeError"

\* result.data: no row, one row or two, a row being the id the server reports
Rows == {<<>>} \cup {<<i>> : i \in Ids} \cup {<<i, j>> : i, j \in Ids}

\* What the engine can answer to one submitted script: submit raises,
\* fetch_data raises, or a result with these rows
Outcomes == {<<"submit_error", <<>>>>, <<"fetch_error", <<>>>>} \cup {<<"data", r>> : r \in Rows}

VARIABLES
  transactions,   \* engine._features['transactions']
  cast,           \* the elements the caller of this session works with
  elemId,         \* element.id of every element (NoId: no attribute)
  pending,        \* Session._pending; an entry is the element and, as history,
                  \* the number of the add that enqueued it
  current,        \* Session._current: id -> element (NoElem: no such key)
  tasks,          \* the coroutines in flight, one record per task
  added,          \* history: how many elements add() has enqueued
  saveLog,        \* history: the entries flush() passed to save, in order, by number
  remote_connection,  \* AsyncRemoteGraph.remote_connection
  gtasks,         \* the coroutines of the graph in flight, one record per task
  glog            \* history of the graph: the calls made on it, the submit and
                  \* close calls its connection received, whether a close returned

sessionVars == <<transactions, cast, elemId, pending, current, tasks, added, saveLog>>
graphVars == <<remote_connection, gtasks, glog>>
vars == <<transactions, cast, elemId, pending, current, tasks, added, saveLog,
          remote_connection, gtasks, glog>>

GIdle == [pc |-> "idle", op |-> "none", exc |-> NoExc, ret |-> NoRet]

Idle ==
  [pc |-> "idle", op |-> "none", elem |-> NoElem, fam |-> NoFam, sent |-> <<>>,
   ret |-> NoRet, exc |-> NoExc, hadId |-> NoId, fetched |-> "none", nrows |-> 0, row0 |-> NoId,
   maps |-> 0, mark |-> 0, no |-> 0, open |-> 0, flushed |-> FALSE, txs |-> 0]

\* Session.__init__
Init ==
  /\ transactions \in BOOLEAN
  /\ \E b \in Elements : cast = {"v", b}
  /\ elemId \in [Elements -> {NoId} \cup Ids]
  /\ \A el \in Elements \ cast : elemId[el] = NoId
  /\ pending = <<>>
  /\ current = [i \in Ids |-> NoElem]
  /\ tasks = [t \in Tasks |-> Idle]
  /\ added = 0
  /\ saveLog = <<>>
  /\ remote_connection = "connection"
  /\ gtasks = [t \in Tasks |-> GIdle]
  /\ glog = [calls |-> 0, submits |-> 0, closes |-> 0, closed |-> FALSE]

\* ------------------------------------------------------------------------
\* The code of Session, as operators on a task's record
\* ------------------------------------------------------------------------

\* hasattr(element, 'id')
HasId(ids, el) == ids[el] # NoId

\* Mutant of HasEndpoints: only the source is tested
HasEndpointsSourceOnly(el) == Source(el) # NoAttr

\* hasattr(element, 'source') and hasattr(element, 'target')
HasEndpoints(el) == Source(el) # NoAttr /\ Target(el) # NoAttr

\* Session.execute_traversal up to engine.submit: the exception it raises or
\* the script it submits.  With transaction support the test
\* `not self._use_session()` calls self._use_session, which __init__ set to
\* the bool False: TypeError (and self._wrap_in_tx(script), were it reached,
\* is called with an argument it does not take).  Without, the compiled
\* script is submitted as it is.
ExecuteTraversal(tx) ==
  IF tx
  THEN [exc |-> TypeError, script |-> "none"]
  ELSE [exc |-> NoExc, script |-> "compiled"]

\* Mutant of Submit: the last traversal of a save made by flush is submitted
\* and not awaited, the loop of flush goes on
SubmitNoAwait(rec, kind, fam, nextpc, tx) ==
  LET x == ExecuteTraversal(tx)
  IN IF x.exc # NoExc
     THEN [rec EXCEPT !.pc = "raised", !.exc = x.exc]
     ELSE [rec EXCEPT !.pc = IF rec.op = "flush" /\ nextpc = "save_final"
                             THEN "flush_loop" ELSE nextpc,
                      !.open = @ + 1,
                      !.sent = Append(@, [kind |-> kind, fam |-> fam, script |-> x.script])]

\* A task record after `await self.execute_traversal(traversal)` was entered
\* for a traversal of the given kind: suspended at nextpc with the script
\* submitted, or raising
Submit(rec, kind, fam, nextpc, tx) ==
  LET x == ExecuteTraversal(tx)
  IN IF x.exc # NoExc
     THEN [rec EXCEPT !.pc = "raised", !.exc = x.exc]
     ELSE [rec EXCEPT !.pc = nextpc,
                      !.open = @ + 1,
                      !.sent = Append(@, [kind |-> kind, fam |-> fam, script |-> x.script])]

\* The traversal _save_element builds first
FirstTraversal(ids, el) == IF HasId(ids, el) THEN "get" ELSE "create"

\* Mutant of SecondTraversal: a create whatever the fetch-by-id found
SecondTraversalCreate(rows) == "create"

\* The traversal _save_element builds after the fetch-by-id
SecondTraversal(rows) == IF rows = <<>> THEN "create" ELSE "update"

\* Session._save_element up to its first await
SaveElement(rec, el, fam, ids, tx) ==
  LET kind == FirstTraversal(ids, el)
  IN Submit([rec EXCEPT !.fam = fam], kind, fam,
            IF kind = "get" THEN "save_get" ELSE "save_final", tx)

\* Session.save_vertex up to its first await
SaveVertex(rec, el, ids, tx) == SaveElement(rec, el, "vertex", ids, tx)

\* Session.save_edge up to its first await
SaveEdge(rec, el, ids, tx) ==
  IF ~HasEndpoints(el)
  THEN [rec EXCEPT !.pc = "raised", !.exc = MissingEndpoints]
  ELSE SaveElement(rec, el, "edge", ids, tx)

\* Session.save up to its first await
Save(rec, el, ids, tx) ==
  CASE Type(el) = "vertex" -> SaveVertex(rec, el, ids, tx)
    [] Type(el) = "edge" -> SaveEdge(rec, el, ids, tx)
    [] OTHER -> [rec EXCEPT !.pc = "raised", !.exc = UnknownElementType]

\* mapper.map_vertex_to_ogm / map_edge_to_ogm: merges the row onto the
\* element it is given (its id becomes the row's) and returns that element
MapToOgm(ids, row, el) == [ids EXCEPT ![el] = row]

\* _save_element after the last fetch_data: mapper_func(result.data[0], ...)
Row0(rows) == rows[1]

\* Mutant of CacheAfterSave: the cache is replaced by the one entry
CacheAfterSaveReset(cur, id, el) == [i \in Ids |-> IF i = id THEN el ELSE NoElem]

\* self.current[result.id] = result
CacheAfterSave(cur, id, el) == [cur EXCEPT ![id] = el]

\* Mutant of CacheAfterRemove: the cache is cleared
CacheAfterRemoveClear(cur, id) == [i \in Ids |-> NoElem]

\* del self.current[element.id]
CacheAfterRemove(cur, id) == [cur EXCEPT ![id] = NoElem]

\* Mutant of PopLeft: pop() takes the newest entry
PopRight(q) == [entry |-> q[Len(q)], rest |-> SubSeq(q, 1, Len(q) - 1)]

\* Mutant of PopLeft: the oldest entry is read and left in the queue
PopPeek(q) == [entry |-> Head(q), rest |-> q]

\* Mutant of PopLeft: the entry behind the returned one leaves the queue too
PopDrop(q) == [entry |-> Head(q), rest |-> IF Len(q) > 1 THEN Tail(Tail(q)) ELSE <<>>]

\* self._pending.popleft(): the entry it returns and the queue it leaves
PopLeft(q) == [entry |-> Head(q), rest |-> Tail(q)]

\* The record of a task that enters an operation on element el
Enter(op, el, ids) ==
  [Idle EXCEPT !.op = op, !.elem = el, !.hadId = ids[el]]

\* Where a coroutine that returned or raised leaves its task: a task in one
\* of these states has not yet given control back, no other task runs
Instant == {"done", "raised", "flush_loop"}
Quiet == \A t \in Tasks : tasks[t].pc \notin Instant

\* ------------------------------------------------------------------------
\* Actions
\* ------------------------------------------------------------------------

\* Session.add(*elements)
Add(es) ==
  /\ Quiet
  /\ added + Len(es) <= MaxAdds
  /\ pending' = pending \o [i \in 1..Len(es) |-> [el |-> es[i], no |-> added + i]]
  /\ added' = added + Len(es)
  /\ UNCHANGED <<transactions, cast, elemId, current, tasks, saveLog>>
  /\ UNCHANGED graphVars

\* Session.commit after `await self.flush()` returned: the test of line 146
\* calls self._use_session (a bool) when the engine has transactions, so
\* self.tx() is never reached; otherwise the last line raises
CommitTail(rec, tx) ==
  IF tx
  THEN [rec EXCEPT !.pc = "raised", !.exc = TypeError]
  ELSE [rec EXCEPT !.pc = "raised", !.exc = NotImplementedError]

\* await session.commit(): the coroutine starts and enters flush
CallCommit(t) ==
  /\ Quiet
  /\ tasks[t].pc = "idle"
  /\ tasks' = [tasks EXCEPT ![t] = [Idle EXCEPT !.op = "commit", !.pc = "flush_loop", !.mark = added]]
  /\ UNCHANGED <<transactions, cast, elemId, pending, current, added, saveLog>>
  /\ UNCHANGED graphVars

\* await session.flush(): the coroutine starts
CallFlush(t) ==
  /\ Quiet
  /\ tasks[t].pc = "idle"
  /\ tasks' = [tasks EXCEPT ![t] = [Idle EXCEPT !.op = "flush", !.pc = "flush_loop", !.mark = added]]
  /\ UNCHANGED <<transactions, cast, elemId, pending, current, added, saveLog>>
  /\ UNCHANGED graphVars

\* Session.flush: the test of the while loop, the popleft and the save of
\* the dequeued element up to its first await
FlushLoop(t) ==
  /\ tasks[t].pc = "flush_loop"
  /\ IF pending = <<>>
     THEN /\ tasks' = [tasks EXCEPT ![t] =
                         IF @.op = "commit"
                         THEN CommitTail([@ EXCEPT !.flushed = TRUE], transactions)
                         ELSE [@ EXCEPT !.pc = "done", !.ret = None, !.flushed = TRUE]]
          /\ UNCHANGED <<pending, saveLog>>
     ELSE LET pop == PopLeft(pending)
              el == pop.entry.el
          IN /\ pending' = pop.rest
             /\ saveLog' = Append(saveLog, pop.entry.no)
             /\ tasks' = [tasks EXCEPT ![t] =
                            Save([Enter(tasks[t].op, el, elemId)
                                    EXCEPT !.pc = "flush_loop", !.mark = tasks[t].mark,
                                           !.no = pop.entry.no, !.open = tasks[t].open],
                                 el, elemId, transactions)]
  /\ UNCHANGED <<transactions, cast, elemId, current, added>>
  /\ UNCHANGED graphVars

\* await session.save(element)
CallSave(t, el) ==
  /\ Quiet
  /\ tasks[t].pc = "idle"
  /\ tasks' = [tasks EXCEPT ![t] = Save(Enter("save", el, elemId), el, elemId, transactions)]
  /\ UNCHANGED <<transactions, cast, elemId, pending, current, added, saveLog>>
  /\ UNCHANGED graphVars

\* await session.save_vertex(element)
CallSaveVertex(t, el) ==
  /\ Quiet
  /\ tasks[t].pc = "idle"
  /\ Type(el) = "vertex"
  /\ tasks' = [tasks EXCEPT ![t] =
                 SaveVertex(Enter("save_vertex", el, elemId), el, elemId, transactions)]
  /\ UNCHANGED <<transactions, cast, elemId, pending, current, added, saveLog>>
  /\ UNCHANGED graphVars

\* await session.save_edge(element)
CallSaveEdge(t, el) ==
  /\ Quiet
  /\ tasks[t].pc = "idle"
  /\ Type(el) = "edge"
  /\ tasks' = [tasks EXCEPT ![t] =
                 SaveEdge(Enter("save_edge", el, elemId), el, elemId, transactions)]
  /\ UNCHANGED <<transactions, cast, elemId, pending, current, added, saveLog>>
  /\ UNCHANGED graphVars

\* await session.remove_vertex(element) / remove_edge(element), up to the
\* first await of _remove_element
CallRemove(t, el) ==
  /\ Quiet
  /\ tasks[t].pc = "idle"
  /\ Type(el) \in {"vertex", "edge"}
  /\ HasId(elemId, el)
  /\ tasks' = [tasks EXCEPT ![t] =
                 Submit(Enter(IF Type(el) = "vertex" THEN "remove_vertex" ELSE "remove_edge",
                              el, elemId),
                        "remove", Type(el), "remove", transactions)]
  /\ UNCHANGED <<transactions, cast, elemId, pending, current, added, saveLog>>
  /\ UNCHANGED graphVars

\* await session.get_vertex(element) / get_edge(element), up to the first
\* await
CallGet(t, el) ==
  /\ Quiet
  /\ tasks[t].pc = "idle"
  /\ Type(el) \in {"vertex", "edge"}
  /\ HasId(elemId, el)
  /\ tasks' = [tasks EXCEPT ![t] =
                 Submit(Enter(IF Type(el) = "vertex" THEN "get_vertex" ELSE "get_edge",
                              el, elemId),
                        "get", Type(el), "get", transactions)]
  /\ UNCHANGED <<transactions, cast, elemId, pending, current, added, saveLog>>
  /\ UNCHANGED graphVars

\* await session.execute_traversal(traversal), called on a traversal of any
\* kind the query builder makes, up to engine.submit
CallExecuteTraversal(t, kind, el) ==
  /\ Quiet
  /\ tasks[t].pc = "idle"
  /\ Type(el) \in {"vertex", "edge"}
  /\ tasks' = [tasks EXCEPT ![t] =
                 Submit(Enter("execute_traversal", el, elemId),
                        kind, Type(el), "exec", transactions)]
  /\ UNCHANGED <<transactions, cast, elemId, pending, current, added, saveLog>>
  /\ UNCHANGED graphVars

\* The task's record when the engine fails the awaited submit or fetch_data:
\* the failure propagates out of every coroutine of the task
Fail(rec) == [rec EXCEPT !.pc = "raised", !.exc = TransportError, !.open = @ - 1]

\* Where a save that returned leaves the task: back in flush's loop, or done
AfterSave(rec) == IF rec.op \in {"flush", "commit"} THEN "flush_loop" ELSE "done"

\* _save_element resumes with the result of the fetch-by-id and submits the
\* create or the update
SaveFetched(t, o) ==
  /\ Quiet
  /\ tasks[t].pc = "save_get"
  /\ IF o[1] # "data"
     THEN tasks' = [tasks EXCEPT ![t] = Fail(@)]
     ELSE tasks' = [tasks EXCEPT ![t] =
                      Submit([@ EXCEPT !.fetched = IF o[2] = <<>> THEN "empty" ELSE "rows",
                                       !.open = @ - 1],
                             SecondTraversal(o[2]), @.fam,
                             "save_final", transactions)]
  /\ UNCHANGED <<transactions, cast, elemId, pending, current, added, saveLog>>
  /\ UNCHANGED graphVars

\* Mutant of SaveFinish: the element is put in the cache under the id it
\* has before row 0 is read
SaveFinishCachesFirst(cur, ids, rows, el) ==
  LET early == IF HasId(ids, el) THEN CacheAfterSave(cur, ids[el], el) ELSE cur
  IN IF rows = <<>>
     THEN [exc |-> IndexError, ids |-> ids, cur |-> early]
     ELSE LET merged == MapToOgm(ids, Row0(rows), el)
          IN [exc |-> NoExc, ids |-> merged, cur |-> CacheAfterSave(early, merged[el], el)]

\* _save_element after the last fetch_data and the end of save_vertex /
\* save_edge: result.data[0] raises IndexError on an empty result; else the
\* mapper merges row 0 onto the element and the result is put in the cache
SaveFinish(cur, ids, rows, el) ==
  IF rows = <<>>
  THEN [exc |-> IndexError, ids |-> ids, cur |-> cur]
  ELSE LET merged == MapToOgm(ids, Row0(rows), el)
       IN [exc |-> NoExc, ids |-> merged, cur |-> CacheAfterSave(cur, merged[el], el)]

\* _save_element resumes with the result of the create or update, merges
\* row 0 onto the element; save_vertex / save_edge put the result in the
\* cache and return it
SaveMerged(t, o) ==
  /\ Quiet
  /\ tasks[t].pc = "save_final"
  /\ LET rec == tasks[t]
         el == rec.elem
     IN IF o[1] # "data"
        THEN /\ tasks' = [tasks EXCEPT ![t] = Fail(rec)]
             /\ UNCHANGED <<elemId, current>>
        ELSE LET f == SaveFinish(current, elemId, o[2], el)
             IN /\ elemId' = f.ids
                /\ current' = f.cur
                /\ tasks' = [tasks EXCEPT ![t] =
                               IF f.exc # NoExc
                               THEN [rec EXCEPT !.pc = "raised", !.exc = f.exc, !.open = @ - 1]
                               ELSE [rec EXCEPT !.pc = AfterSave(rec), !.ret = el,
                                                !.nrows = Len(o[2]), !.row0 = o[2][1],
                                                !.maps = @ + 1, !.open = @ - 1]]
  /\ UNCHANGED <<transactions, cast, pending, added, saveLog>>
  /\ UNCHANGED graphVars

\* _remove_element resumes with the result of the delete traversal, deletes
\* the cache entry and returns the result
Removed(t, o) ==
  /\ Quiet
  /\ tasks[t].pc = "remove"
  /\ LET rec == tasks[t]
         id == elemId[rec.elem]
     IN IF o[1] # "data"
        THEN /\ tasks' = [tasks EXCEPT ![t] = Fail(rec)]
             /\ UNCHANGED current
        ELSE IF current[id] = NoElem
        THEN /\ tasks' = [tasks EXCEPT ![t] =
                            [rec EXCEPT !.pc = "raised", !.exc = KeyError, !.nrows = Len(o[2]),
                                        !.open = @ - 1]]
             /\ UNCHANGED current
        ELSE /\ current' = CacheAfterRemove(current, id)
             /\ tasks' = [tasks EXCEPT ![t] =
                            [rec EXCEPT !.pc = "done", !.ret = "result", !.nrows = Len(o[2]),
                                        !.open = @ - 1]]
  /\ UNCHANGED <<transactions, cast, elemId, pending, added, saveLog>>
  /\ UNCHANGED graphVars

\* Mutant of GetMerge: without a row the element itself is returned
GetMergeReturnsElement(ids, rows, el) ==
  IF rows # <<>>
  THEN [ids |-> MapToOgm(ids, rows[1], el), ret |-> el, maps |-> 1]
  ELSE [ids |-> ids, ret |-> el, maps |-> 0]

\* Mutant of GetMerge: with a row the element is returned without the merge
GetMergeNoMerge(ids, rows, el) ==
  IF rows # <<>>
  THEN [ids |-> ids, ret |-> el, maps |-> 0]
  ELSE [ids |-> ids, ret |-> None, maps |-> 0]

\* get_vertex / get_edge after fetch_data: with a row, the mapper merges
\* row 0 onto the element and its result is returned; with none, nothing is
\* merged and None is returned
GetMerge(ids, rows, el) ==
  IF rows # <<>>
  THEN [ids |-> MapToOgm(ids, rows[1], el), ret |-> el, maps |-> 1]
  ELSE [ids |-> ids, ret |-> None, maps |-> 0]

\* get_vertex / get_edge resume with the result of the fetch-by-id
Got(t, o) ==
  /\ Quiet
  /\ tasks[t].pc = "get"
  /\ LET rec == tasks[t]
         el == rec.elem
     IN IF o[1] # "data"
        THEN /\ tasks' = [tasks EXCEPT ![t] = Fail(rec)]
             /\ UNCHANGED elemId
        ELSE LET m == GetMerge(elemId, o[2], el)
             IN /\ elemId' = m.ids
                /\ tasks' = [tasks EXCEPT ![t] =
                               [rec EXCEPT !.pc = "done", !.ret = m.ret,
                                           !.nrows = Len(o[2]),
                                           !.row0 = IF o[2] # <<>> THEN o[2][1] ELSE NoId,
                                           !.maps = @ + m.maps, !.open = @ - 1]]
  /\ UNCHANGED <<transactions, cast, pending, current, added, saveLog>>
  /\ UNCHANGED graphVars

\* execute_traversal resumes when engine.submit returns the stream, and
\* returns it
Executed(t, o) ==
  /\ Quiet
  /\ tasks[t].pc = "exec"
  /\ o[1] \in {"submit_error", "data"}
  /\ o[2] = <<>>
  /\ tasks' = [tasks EXCEPT ![t] =
                 IF o[1] # "data" THEN Fail(@)
                 ELSE [@ EXCEPT !.pc = "done", !.ret = "stream", !.open = @ - 1]]
  /\ UNCHANGED <<transactions, cast, elemId, pending, current, added, saveLog>>
  /\ UNCHANGED graphVars

\* The coroutine that returned or raised gives control back to its caller
Return(t) ==
  /\ tasks[t].pc \in {"done", "raised"}
  /\ tasks' = [tasks EXCEPT ![t] = Idle]
  /\ UNCHANGED <<transactions, cast, elemId, pending, current, added, saveLog>>
  /\ UNCHANGED graphVars

\* The task that calls the operations of the session
Caller == {"t1"}

AddArgs == {<<a>> : a \in cast} \cup {<<a, b>> : a, b \in cast}
Kinds == {"get", "create", "update", "remove"}

Next ==
  \/ \E es \in AddArgs : Add(es)
  \/ \E t \in Caller : CallFlush(t)
  \/ \E t \in Caller : FlushLoop(t)
  \/ \E t \in Caller, el \in cast : CallSave(t, el)
  \/ \E t \in Caller, el \in cast : CallSaveVertex(t, el)
  \/ \E t \in Caller, el \in cast : CallSaveEdge(t, el)
  \/ \E t \in Caller, el \in cast : CallRemove(t, el)
  \/ \E t \in Caller, el \in cast : CallGet(t, el)
  \/ \E t \in Caller, el \in cast, kind \in Kinds : CallExecuteTraversal(t, kind, el)
  \/ \E t \in Caller, o \in Outcomes : SaveFetched(t, o)
  \/ \E t \in Caller, o \in Outcomes : SaveMerged(t, o)
  \/ \E t \in Caller, o \in Outcomes : Removed(t, o)
  \/ \E t \in Caller, o \in Outcomes : Got(t, o)
  \/ \E t \in Caller, o \in Outcomes : Executed(t, o)
  \/ \E t \in Caller : Return(t)

Spec == Init /\ [][Next]_vars

TypeOK ==
  /\ transactions \in BOOLEAN
  /\ cast \subseteq Elements
  /\ elemId \in [Elements -> {NoId} \cup Ids]
  /\ \A i \in 1..Len(pending) : pending[i].el \in cast
  /\ current \in [Ids -> Elements \cup {NoElem}]
  /\ \A t \in Tasks : tasks[t].pc \in {"idle", "flush_loop", "save_get", "save_final",
                                       "remove", "get", "exec", "done", "raised"}
  /\ remote_connection \in {"connection", None}
  /\ \A t \in Tasks : gtasks[t].pc \in {"idle", "submit", "close", "done", "raised"}
  /\ glog.calls \in 0..MaxCalls

\* ------------------------------------------------------------------------
\* Properties
\* ------------------------------------------------------------------------
SaveOps == {"save", "save_vertex", "save_edge"}

\* The task is in a save, called directly or by flush
InSave(t) == tasks[t].op \in SaveOps \/ (tasks[t].op = "flush" /\ tasks[t].elem # NoElem)

\* The save of tasks[t].elem has just returned its result
SaveReturned(t) ==
  \/ tasks[t].op \in SaveOps /\ tasks[t].pc = "done"
  \/ tasks[t].op = "flush" /\ tasks[t].pc = "flush_loop" /\ tasks[t].ret # NoRet

\* The save of tasks[t].elem has just raised
SaveRaised(t) == InSave(t) /\ tasks[t].pc = "raised"

\* The element passes the tests save and save_edge make before any request
PassesChecks(el) ==
  \/ Type(el) = "vertex"
  \/ Type(el) = "edge" /\ Source(el) # NoAttr /\ Target(el) # NoAttr

\* C1: the save of a vertex without identity submits exactly one create
\* traversal and no fetch-by-id, and when it returns the vertex has the id
\* of row 0 of the create result and is current[that id].
C1_SaveNewVertexCreatesOnce ==
  \A t \in Tasks :
    LET r == tasks[t]
    IN (/\ InSave(t)
        /\ SaveReturned(t) \/ SaveRaised(t)
        /\ Type(r.elem) = "vertex"
        /\ r.hadId = NoId)
       => /\ Len(r.sent) = 1
          /\ r.sent[1].kind = "create"
          /\ SaveReturned(t) => (elemId[r.elem] = r.row0 /\ current[r.row0] = r.elem)

\* The statement of C1 on an engine without transaction support
SaveNewVertexCreatesOnceWithoutTransactions ==
  ~transactions => C1_SaveNewVertexCreatesOnce

\* C2: the save of an element with an identity submits one fetch-by-id and
\* then one second traversal: an update when the fetch returned a row, a
\* create when it returned none.
C2_SaveKnownFetchesThenUpserts ==
  \A t \in Tasks :
    LET r == tasks[t]
    IN (/\ InSave(t)
        /\ SaveReturned(t) \/ SaveRaised(t)
        /\ PassesChecks(r.elem)
        /\ r.hadId # NoId)
       => /\ Len(r.sent) >= 1
          /\ r.sent[1].kind = "get"
          /\ r.fetched = "none" => Len(r.sent) = 1
          /\ r.fetched = "rows" => (Len(r.sent) = 2 /\ r.sent[2].kind = "update")
          /\ r.fetched = "empty" => (Len(r.sent) = 2 /\ r.sent[2].kind = "create")

\* The statement of C2 on an engine without transaction support
SaveKnownFetchesThenUpsertsWithoutTransactions ==
  ~transactions => C2_SaveKnownFetchesThenUpserts

\* C3: save_edge, and save, of an edge that has no source attribute or no
\* target attribute raises the missing-endpoints exception in the call
\* itself: nothing is submitted, the cache and the queue are as before.
\* The same edge dequeued by flush raises with nothing submitted and the
\* cache as before.
C3_MissingEndpointsRejected ==
  [][\A t \in Tasks, el \in Elements :
       (/\ Type(el) = "edge"
        /\ Source(el) = NoAttr \/ Target(el) = NoAttr)
       => /\ (/\ tasks[t].pc = "idle"
              /\ tasks'[t].pc # "idle"
              /\ tasks'[t].op \in {"save", "save_edge"}
              /\ tasks'[t].elem = el)
             => /\ tasks'[t].pc = "raised"
                /\ tasks'[t].exc = MissingEndpoints
                /\ tasks'[t].sent = <<>>
                /\ current' = current
                /\ pending' = pending
          /\ (/\ tasks[t].pc = "flush_loop"
              /\ pending # <<>>
              /\ Head(pending).el = el)
             => /\ tasks'[t].pc = "raised"
                /\ tasks'[t].exc = MissingEndpoints
                /\ tasks'[t].sent = <<>>
                /\ current' = current]_vars

C3_Witness ==
  \E t \in Tasks, i \in Ids :
    /\ tasks[t].op \in {"save", "save_edge"}
    /\ tasks[t].pc = "raised"
    /\ tasks[t].exc = MissingEndpoints
    /\ Source(tasks[t].elem) # NoAttr
    /\ Target(tasks[t].elem) = NoAttr
    /\ current[i] # NoElem
    /\ pending # <<>>

\* C4: save and save_edge of an edge whose source is None raise the
\* missing-endpoints exception with nothing submitted.
C4_NoneSourceRejected ==
  \A t \in Tasks :
    LET r == tasks[t]
    IN (/\ r.op \in {"save", "save_edge"}
        /\ r.pc # "idle"
        /\ Type(r.elem) = "edge"
        /\ Source(r.elem) = None)
       => /\ r.pc = "raised"
          /\ r.exc = MissingEndpoints
          /\ r.sent = <<>>

\* C5: the step in which a save returns leaves the returned element, the
\* one it was given, in the cache under its new id, and every other cache
\* entry as it was.
C5_SaveCachesResult ==
  [][\A t \in Tasks :
       (/\ tasks[t].pc = "save_final"
        /\ tasks'[t].pc \in {"done", "flush_loop"})
       => LET el == tasks[t].elem
              id == elemId'[el]
          IN /\ id \in Ids
             /\ id = tasks'[t].row0
             /\ tasks'[t].ret = el
             /\ current'[id] = el
             /\ \A k \in Ids \ {id} : current'[k] = current[k]]_vars

C5_Witness ==
  \E t \in Tasks, k \in Ids :
    /\ SaveReturned(t)
    /\ Type(tasks[t].elem) = "edge"
    /\ k # elemId[tasks[t].elem]
    /\ current[k] # NoElem
    /\ current[elemId[tasks[t].elem]] = tasks[t].elem

\* C6: the step in which a remove returns, for an element whose id is a key
\* of the cache, deletes that key, leaves every other entry as it was, and
\* the remove has submitted exactly one delete traversal.
C6_RemoveDeletesEntry ==
  [][\A t \in Tasks :
       (/\ tasks[t].pc = "remove"
        /\ tasks'[t].pc = "done"
        /\ current[elemId[tasks[t].elem]] # NoElem)
       => LET id == elemId[tasks[t].elem]
          IN /\ current'[id] = NoElem
             /\ Len(tasks'[t].sent) = 1
             /\ tasks'[t].sent[1].kind = "remove"
             /\ \A k \in Ids \ {id} : current'[k] = current[k]]_vars

C6_Witness ==
  \E t \in Tasks, k \in Ids :
    /\ tasks[t].op \in {"remove_vertex", "remove_edge"}
    /\ tasks[t].pc = "done"
    /\ current[elemId[tasks[t].elem]] = NoElem
    /\ k # elemId[tasks[t].elem]
    /\ current[k] # NoElem

\* C7: a get whose fetch-by-id result has no row returns None: it does not
\* raise, the mapper is not invoked, and the elements, the cache and the
\* queue are as before.
C7_GetEmptyReturnsNone ==
  [][\A t \in Tasks :
       (/\ tasks[t].pc = "get"
        /\ tasks'[t].pc # "get"
        /\ tasks'[t].exc # TransportError
        /\ tasks'[t].nrows = 0)
       => /\ tasks'[t].pc = "done"
          /\ tasks'[t].ret = None
          /\ tasks'[t].maps = 0
          /\ elemId' = elemId
          /\ current' = current
          /\ pending' = pending]_vars

C7_Witness ==
  \E t \in Tasks, i \in Ids :
    /\ tasks[t].op = "get_edge"
    /\ tasks[t].pc = "done"
    /\ tasks[t].nrows = 0
    /\ tasks[t].ret = None
    /\ current[i] # NoElem
    /\ pending # <<>>

\* C8: flush passes the queued entries to save in the order add enqueued
\* them, and when it returns the queue is empty and every entry enqueued so
\* far, those added while it was suspended included, was passed to save.
C8_FlushFifo ==
  /\ \A i \in 1..Len(saveLog) : saveLog[i] = i
  /\ \A i \in 1..Len(pending) : pending[i].no = Len(saveLog) + i
  /\ Len(saveLog) + Len(pending) = added
  /\ \A t \in Tasks :
       (tasks[t].op = "flush" /\ tasks[t].pc = "done")
       => (pending = <<>> /\ Len(saveLog) = added)

C8_Witness ==
  \E t \in Tasks :
    /\ tasks[t].op = "flush"
    /\ tasks[t].pc = "done"
    /\ tasks[t].mark >= 1
    /\ added > tasks[t].mark
    /\ Len(saveLog) >= 2

\* C9: when the save of a dequeued entry B raises, flush raises with it:
\* B has left the queue, the entries behind B stay queued in their order,
\* and flush passes none of them to save.
C9_FlushAbortsOnFailure ==
  [][\A t \in Tasks :
       /\ (tasks[t].pc = "flush_loop" /\ tasks'[t].pc = "raised")
          => /\ pending # <<>>
             /\ tasks'[t].op = "flush"
             /\ tasks'[t].elem = Head(pending).el
             /\ tasks'[t].exc # NoExc
             /\ pending' = Tail(pending)
             /\ saveLog' = Append(saveLog, Head(pending).no)
       /\ (/\ tasks[t].op = "flush"
           /\ tasks[t].pc \in {"save_get", "save_final"}
           /\ tasks'[t].pc = "raised")
          => /\ tasks'[t].op = "flush"
             /\ tasks'[t].elem = tasks[t].elem
             /\ tasks'[t].exc # NoExc
             /\ pending' = pending
             /\ saveLog' = saveLog
       /\ (tasks[t].op = "flush" /\ tasks[t].pc = "raised")
          => /\ saveLog # <<>>
             /\ \A i \in 1..Len(pending) : pending[i].no = saveLog[Len(saveLog)] + i
             /\ tasks'[t].pc = "idle"
             /\ pending' = pending
             /\ saveLog' = saveLog]_vars

C9_Witness ==
  \E t \in Tasks :
    /\ tasks[t].op = "flush"
    /\ tasks[t].pc = "raised"
    /\ tasks[t].exc = IndexError
    /\ Len(saveLog) >= 1
    /\ pending # <<>>

\* Session.__init__ sets _use_session to False whatever use_session is: the
\* session is never in session-scoped transaction mode
SessionScoped == FALSE

\* C10: execute_traversal submits exactly one script and returns the
\* engine's stream; the script is the transaction-wrapped one when the
\* engine has transactions and the session is not session-scoped, the
\* compiled one otherwise.
C10_ExecuteSubmitsOnce ==
  \A t \in Tasks :
    LET r == tasks[t]
    IN (r.op = "execute_traversal" /\ r.pc # "idle")
       => /\ Len(r.sent) = 1
          /\ r.sent[1].script = IF transactions /\ ~SessionScoped THEN "wrapped" ELSE "compiled"
          /\ r.pc = "done" => r.ret = "stream"

\* The statement of C10 on an engine without transaction support
ExecuteSubmitsOnceWithoutTransactions ==
  ~transactions => C10_ExecuteSubmitsOnce

\* ------------------------------------------------------------------------
\* commit
\* ------------------------------------------------------------------------

\* The session used through add and commit only
NextCommit ==
  \/ \E es \in AddArgs : Add(es)
  \/ \E t \in Caller : CallCommit(t)
  \/ \E t \in Caller : FlushLoop(t)
  \/ \E t \in Caller, o \in Outcomes : SaveFetched(t, o)
  \/ \E t \in Caller, o \in Outcomes : SaveMerged(t, o)
  \/ \E t \in Caller : Return(t)

SpecCommit == Init /\ [][NextCommit]_vars

\* C11: a commit whose flush has returned invokes tx exactly when the engine
\* has transactions and the session is session-scoped; otherwise it takes no
\* further step and returns normally, the queue empty.
C11_CommitFlushesThenFinalizes ==
  \A t \in Tasks :
    LET r == tasks[t]
    IN (r.op = "commit" /\ r.pc \in {"done", "raised"} /\ r.flushed)
       => IF transactions /\ SessionScoped
          THEN r.txs = 1
          ELSE r.pc = "done" /\ r.txs = 0 /\ pending = <<>>

\* ------------------------------------------------------------------------
\* get, empty results, remove
\* ------------------------------------------------------------------------
GetOps == {"get_vertex", "get_edge"}
RemoveOps == {"remove_vertex", "remove_edge"}

\* C12, as stated: a get with a non-empty result returns a new element and
\* leaves the identity of the element it was given as it was.
C12_GetReturnsNewElement ==
  \A t \in Tasks :
    LET r == tasks[t]
    IN (r.op \in GetOps /\ r.pc = "done" /\ r.nrows > 0)
       => /\ r.ret # None
          /\ r.ret # r.elem
          /\ elemId[r.elem] = r.hadId

\* C12, amended: a get with a non-empty result has the mapper merge row 0
\* onto the element it was given, once, and returns that same element,
\* whose identity is now row 0's.
C12_GetMergesOntoArgument ==
  \A t \in Tasks :
    LET r == tasks[t]
    IN (r.op \in GetOps /\ r.pc = "done" /\ r.nrows > 0)
       => /\ r.ret = r.elem
          /\ r.maps = 1
          /\ elemId[r.elem] = r.row0

C12_Witness ==
  \E t \in Tasks :
    /\ tasks[t].op \in GetOps
    /\ tasks[t].pc = "done"
    /\ tasks[t].nrows > 0
    /\ tasks[t].ret = tasks[t].elem
    /\ elemId[tasks[t].elem] # tasks[t].hadId

\* C13: when a get returns an element, that element is the cache entry of
\* its identity.
C13_GetRefreshesCache ==
  \A t \in Tasks :
    LET r == tasks[t]
    IN (r.op \in GetOps /\ r.pc = "done" /\ r.nrows > 0)
       => current[elemId[r.elem]] = r.ret

\* C14: no operation of the session fails on a result without rows: the
\* exception of result.data[0] on an empty result is never raised.
C14_EmptyResultNeverFails ==
  \A t \in Tasks : ~(tasks[t].pc = "raised" /\ tasks[t].exc = IndexError)

\* The part of C14 that holds: a get or a remove never fails on an empty
\* result, nor does the fetch-by-id of a save
EmptyResultFailsOnlySaveFinish ==
  \A t \in Tasks :
    (tasks[t].pc = "raised" /\ tasks[t].exc = IndexError)
    => (InSave(t) /\ Len(tasks[t].sent) >= 1
        /\ tasks[t].sent[Len(tasks[t].sent)].kind \in {"create", "update"})

\* ------------------------------------------------------------------------
\* Order of the traversals of a flush
\* ------------------------------------------------------------------------

\* C15: the traversals of one flush reach the engine one at a time and
\* grouped by element: the flush has a traversal unanswered only while it is
\* suspended in the save of the element it dequeued last, and then exactly
\* one, the last of those it submitted for that element; when it tests the
\* queue for the next element, none is unanswered.
C15_FlushTraversalsSequential ==
  \A t \in Tasks :
    LET r == tasks[t]
    IN r.op = "flush"
       => /\ r.open = (IF r.pc \in {"save_get", "save_final"} THEN 1 ELSE 0)
          /\ r.pc \in {"save_get", "save_final"}
             => /\ Len(r.sent) = (IF r.pc = "save_final" /\ r.hadId # NoId THEN 2 ELSE 1)
                /\ saveLog # <<>>
                /\ saveLog[Len(saveLog)] = r.no

C15_Witness ==
  \E t \in Tasks :
    /\ tasks[t].op = "flush"
    /\ tasks[t].pc = "save_final"
    /\ Len(tasks[t].sent) = 2
    /\ tasks[t].open = 1
    /\ Len(saveLog) = 2
    /\ tasks[t].no = saveLog[2]

\* C17: a remove of an element whose identity is not a key of the cache,
\* once the delete traversal was executed and fetched, returns the fetched
\* result after exactly one delete submission, the identity absent from the
\* cache.
C17_RemoveUncachedReturns ==
  \A t \in Tasks :
    LET r == tasks[t]
    IN (/\ r.op \in RemoveOps
        /\ r.pc \in {"done", "raised"}
        /\ r.exc \notin {TypeError, TransportError}
        /\ current[elemId[r.elem]] = NoElem)
       => /\ r.pc = "done"
          /\ r.ret = "result"
          /\ Len(r.sent) = 1
          /\ r.sent[1].kind = "remove"

\* ------------------------------------------------------------------------
\* The cache during a save
\* ------------------------------------------------------------------------

\* A step of task t that belongs to a save: it enters one, resumes one, or
\* raises out of one
SaveStep(t) ==
  /\ tasks'[t] # tasks[t]
  /\ \/ tasks[t].pc \in {"save_get", "save_final"}
     \/ tasks'[t].pc \in {"save_get", "save_final"}
     \/ tasks'[t].pc = "raised" /\ tasks'[t].op \in SaveOps \cup {"flush"}

\* C20: a step of a save changes the cache only when it is the step in which
\* the save returns, after the mapper merged row 0, and then by the one
\* entry of the result; every step of a save that fails leaves the cache as
\* it was.
C20_FailedSaveKeepsCache ==
  [][\A t \in Tasks :
       SaveStep(t)
       => \/ current' = current
          \/ /\ tasks[t].pc = "save_final"
             /\ tasks'[t].pc = AfterSave(tasks[t])
             /\ tasks'[t].exc = NoExc
             /\ tasks'[t].ret = tasks[t].elem
             /\ tasks'[t].maps = 1
             /\ current' = CacheAfterSave(current, elemId'[tasks[t].elem], tasks[t].elem)]_vars

C20_Witness ==
  \E t \in Tasks :
    /\ tasks[t].op \in SaveOps
    /\ tasks[t].pc = "raised"
    /\ tasks[t].exc = IndexError
    /\ tasks[t].hadId # NoId
    /\ current[tasks[t].hadId] # tasks[t].elem
    /\ \E i \in Ids : current[i] # NoElem

\* ------------------------------------------------------------------------
\* Two tasks flushing the same session
\* ------------------------------------------------------------------------

NextTwoFlush ==
  \/ \E es \in AddArgs : Add(es)
  \/ \E t \in Tasks : CallFlush(t)
  \/ \E t \in Tasks : FlushLoop(t)
  \/ \E t \in Tasks, o \in Outcomes : SaveFetched(t, o)
  \/ \E t \in Tasks, o \in Outcomes : SaveMerged(t, o)
  \/ \E t \in Tasks : Return(t)

\* The session after construction, its elements a vertex and an edge with
\* both endpoints
InitTwoFlush == Init /\ cast = {"v", "e"}

SpecTwoFlush == InitTwoFlush /\ [][NextTwoFlush]_vars

\* The enqueue numbers in the queue, and those handed to save
Queued == {pending[i].no : i \in 1..Len(pending)}
Saved == {saveLog[i] : i \in 1..Len(saveLog)}

\* C18: with two flush tasks interleaved at their awaits, every entry added
\* is either still queued or was dequeued and passed to save exactly once,
\* two tasks are never in the save of the same entry, and a flush returns
\* only on an empty queue.
C18_ConcurrentFlushSavesOnce ==
  /\ Queued \cup Saved = 1..added
  /\ Queued \cap Saved = {}
  /\ Cardinality(Saved) = Len(saveLog)
  /\ Cardinality(Queued) = Len(pending)
  /\ \A t \in Tasks :
       tasks[t].pc \in {"save_get", "save_final"}
       => /\ tasks[t].no \in Saved
          /\ \A u \in Tasks \ {t} :
               tasks[u].pc \in {"save_get", "save_final"} => tasks[u].no # tasks[t].no
  /\ \A t \in Tasks :
       (tasks[t].op = "flush" /\ tasks[t].pc = "done") => Saved = 1..added

C18_Witness ==
  /\ \A t \in Tasks : tasks[t].op = "flush" /\ tasks[t].pc \in {"save_get", "save_final"}
  /\ tasks["t1"].no # tasks["t2"].no
  /\ Len(saveLog) = 2

\* ------------------------------------------------------------------------
\* Repeated saves against a backend that retains what it created
\* ------------------------------------------------------------------------

\* The session after construction, its elements a vertex and an edge that
\* were never saved
InitRetain ==
  /\ Init
  /\ cast = {"v", "e"}
  /\ \A el \in Elements : elemId[el] = NoId

\* What a backend that retains its elements can answer to the traversal
\* task t awaits: a failure; to a create, one row with an id no element
\* holds; to a fetch-by-id or an update, the one row of the element's id
RetainedOutcomes(t) ==
  LET r == tasks[t]
  IN IF r.sent = <<>>
     THEN {}
     ELSE {<<"submit_error", <<>>>>, <<"fetch_error", <<>>>>}
          \cup (IF r.sent[Len(r.sent)].kind = "create"
                THEN {<<"data", <<i>>>> : i \in {j \in Ids : \A el \in cast : elemId[el] # j}}
                ELSE {<<"data", <<elemId[r.elem]>>>>})

NextRetain ==
  \/ \E es \in AddArgs : Add(es)
  \/ \E t \in Caller : CallFlush(t)
  \/ \E t \in Caller : FlushLoop(t)
  \/ \E t \in Caller, el \in cast : CallSave(t, el)
  \/ \E t \in Caller, el \in cast : CallSaveVertex(t, el)
  \/ \E t \in Caller, el \in cast : CallSaveEdge(t, el)
  \/ \E t \in Caller : \E o \in RetainedOutcomes(t) : SaveFetched(t, o)
  \/ \E t \in Caller : \E o \in RetainedOutcomes(t) : SaveMerged(t, o)
  \/ \E t \in Caller : Return(t)

SpecRetain == InitRetain /\ [][NextRetain]_vars

\* C19: once a save of the vertex v, which started without identity, has
\* returned, every later save of v, direct or by flush, submits the
\* fetch-by-id and then the update and never a create, and the cache holds
\* v under its identity and under no other.
C19_RepeatedSaveConverges ==
  /\ \A t \in Tasks :
       LET r == tasks[t]
       IN (InSave(t) /\ r.elem = "v" /\ r.hadId # NoId)
          => /\ Len(r.sent) <= 2
             /\ \A i \in 1..Len(r.sent) : r.sent[i].kind # "create"
             /\ Len(r.sent) >= 1 => r.sent[1].kind = "get"
             /\ Len(r.sent) = 2 => r.sent[2].kind = "update"
             /\ r.ret = "v" => Len(r.sent) = 2 /\ elemId["v"] = r.hadId
  /\ elemId["v"] # NoId => {i \in Ids : current[i] = "v"} = {elemId["v"]}

C19_Witness ==
  \E t \in Tasks :
    /\ tasks[t].op = "flush"
    /\ tasks[t].elem = "v"
    /\ tasks[t].no = 2
    /\ tasks[t].hadId # NoId
    /\ tasks[t].ret = "v"
    /\ Len(tasks[t].sent) = 2
    /\ saveLog = <<1, 2>>

\* ------------------------------------------------------------------------
\* AsyncRemoteGraph: traversals and close
\* ------------------------------------------------------------------------

\* Mutant of AfterClose: close leaves the reference to the connection
AfterCloseKeeps(conn) == conn

\* self.remote_connection = None
AfterClose(conn) == None

\* await traversal.next(): the strategy's apply reads
\* graph.remote_connection.submit, an AttributeError on None, else the
\* connection receives the submit and the task awaits it
CallNext(t) ==
  /\ gtasks[t].pc = "idle"
  /\ glog.calls < MaxCalls
  /\ IF remote_connection = None
     THEN /\ gtasks' = [gtasks EXCEPT ![t] = [GIdle EXCEPT !.op = "next", !.pc = "raised",
                                                             !.exc = AttributeError]]
          /\ glog' = [glog EXCEPT !.calls = @ + 1]
     ELSE /\ gtasks' = [gtasks EXCEPT ![t] = [GIdle EXCEPT !.op = "next", !.pc = "submit"]]
          /\ glog' = [glog EXCEPT !.calls = @ + 1, !.submits = @ + 1]
  /\ UNCHANGED remote_connection
  /\ UNCHANGED sessionVars

\* apply resumes when the connection's submit returns or raises; next
\* returns what apply returned
Applied(t, ok) ==
  /\ gtasks[t].pc = "submit"
  /\ gtasks' = [gtasks EXCEPT ![t] =
                  IF ok THEN [@ EXCEPT !.pc = "done", !.ret = "stream"]
                  ELSE [@ EXCEPT !.pc = "raised", !.exc = TransportError]]
  /\ UNCHANGED <<remote_connection, glog>>
  /\ UNCHANGED sessionVars

\* await graph.close(), or the __aexit__ of `async with graph`: reads
\* self.remote_connection.close, an AttributeError on None, else the
\* connection receives the close and the task awaits it
CallClose(t, op) ==
  /\ gtasks[t].pc = "idle"
  /\ glog.calls < MaxCalls
  /\ IF remote_connection = None
     THEN /\ gtasks' = [gtasks EXCEPT ![t] = [GIdle EXCEPT !.op = op, !.pc = "raised",
                                                             !.exc = AttributeError]]
          /\ glog' = [glog EXCEPT !.calls = @ + 1]
     ELSE /\ gtasks' = [gtasks EXCEPT ![t] = [GIdle EXCEPT !.op = op, !.pc = "close"]]
          /\ glog' = [glog EXCEPT !.calls = @ + 1, !.closes = @ + 1]
  /\ UNCHANGED remote_connection
  /\ UNCHANGED sessionVars

\* close resumes when the connection's close returns or raises: on a return
\* the reference is cleared and close returns
Closed(t, ok) ==
  /\ gtasks[t].pc = "close"
  /\ IF ok
     THEN /\ remote_connection' = AfterClose(remote_connection)
          /\ gtasks' = [gtasks EXCEPT ![t] = [@ EXCEPT !.pc = "done", !.ret = None]]
          /\ glog' = [glog EXCEPT !.closed = TRUE]
     ELSE /\ gtasks' = [gtasks EXCEPT ![t] = [@ EXCEPT !.pc = "raised", !.exc = TransportError]]
          /\ UNCHANGED <<remote_connection, glog>>
  /\ UNCHANGED sessionVars

\* The coroutine of the graph that returned or raised gives control back
GraphReturn(t) ==
  /\ gtasks[t].pc \in {"done", "raised"}
  /\ gtasks' = [gtasks EXCEPT ![t] = GIdle]
  /\ UNCHANGED <<remote_connection, glog>>
  /\ UNCHANGED sessionVars

CloseOps == {"close", "__aexit__"}

NextGraph ==
  \/ \E t \in Tasks : CallNext(t)
  \/ \E t \in Tasks, ok \in BOOLEAN : Applied(t, ok)
  \/ \E t \in Tasks, op \in CloseOps : CallClose(t, op)
  \/ \E t \in Tasks, ok \in BOOLEAN : Closed(t, ok)
  \/ \E t \in Tasks : GraphReturn(t)

\* A graph next to a session that is not used
InitGraph ==
  /\ Init
  /\ transactions = FALSE
  /\ cast = {"v"}
  /\ \A el \in Elements : elemId[el] = NoId

SpecGraph == InitGraph /\ [][NextGraph]_vars

\* C16: once a close has returned, the reference to the connection is None
\* and stays None, and every call of next, close or __aexit__ made from then
\* on raises at once, the connection receiving neither a submit nor a close.
C16_ClosedGraphFailsEveryUse ==
  [][/\ glog'.closed => remote_connection' = None
     /\ glog.closed
        => /\ glog'.submits = glog.submits
           /\ glog'.closes = glog.closes
           /\ \A t \in Tasks :
                (gtasks[t].pc = "idle" /\ gtasks'[t].pc # "idle")
                => gtasks'[t].pc = "raised" /\ gtasks'[t].exc = AttributeError]_vars

C16_Witness ==
  /\ glog.closed
  /\ remote_connection = None
  /\ \E t, u \in Tasks :
       /\ gtasks[t].pc = "raised" /\ gtasks[t].op = "next" /\ gtasks[t].exc = AttributeError
       /\ gtasks[u].pc = "raised" /\ gtasks[u].op = "close" /\ gtasks[u].exc = AttributeError
====
